---- MODULE Spec2Model ----
(***************************************************************************)
(* grab-o-scope GUI: the capture orchestration of MainWindow/CaptureThread *)
(* over GrabberWrapper, and the ordering of the captures directory.        *)
(***************************************************************************)
EXTENDS Integers, Sequences, FiniteSets, TLC

\* ------------------------------------------------------------------ bounds
MaxCaptures == 2   \* captures accepted in one run
MaxLines == 3      \* lines one external process writes
MaxClock == 2      \* wall-clock seconds the run spans
MaxEntries == 3    \* directory entries of a drawn directory
MaxMtime == 3      \* modification times of a drawn directory

\* ------------------------------------------------------------------ values
ThreadIds == 1..MaxCaptures
NoThread == 0

\* A directory entry name: capture_{stamp}.png, or any other name.
NoName == [base |-> 0, ext |-> ""]
CaptureName(stamp) == [base |-> stamp, ext |-> ".png"]

\* A path string: the directory part (absolute or not) and the entry name.
NoPath == [abs |-> FALSE, name |-> NoName]
JoinPath(dirAbs, name) == [abs |-> dirAbs, name |-> name]
AbsPath(p) == [p EXCEPT !.abs = TRUE]

ExitCodes == {0, 1}

\* What a process writes: up to MaxLines lines, line i carrying the text i, every second line
\* blank (0).
ProcessLine(i) == IF i % 2 = 0 THEN 0 ELSE i
PlanLines == {[i \in 1..n |-> ProcessLine(i)] : n \in 0..MaxLines}

VARIABLES
    now,                 \* wall-clock second
    capture_dir_abs,     \* whether the configured captures directory is an absolute path
    files,               \* the captures directory: name -> [isfile, mtime]
    config,              \* ConfigManager.settings['instrument_name']
    options,             \* the Namespace shared by MainWindow and GrabberWrapper
    capture_thread,      \* MainWindow.capture_thread
    output_callback,     \* GrabberWrapper.output_callback: the thread whose emit_output it is
    pc,                  \* each CaptureThread's position
    cmd,                 \* each run's command line
    plan,                \* each external process: started?, its lines, its exit code
    pipe,                \* process output not yet read
    output_lines,        \* run_grab_o_scope's output_lines
    eventQueue,          \* queued signal deliveries to the GUI thread
    capture_button,      \* capture_button.isEnabled()
    last_captured_image, \* MainWindow.last_captured_image
    original_pixmap,     \* the image shown
    save_button, clear_button, prev_button, next_button, nav_info_label,
    request_outcome,     \* what the last capture_screen call logged: accepted or rejected
    dest,                \* history: destination path fixed when the request was accepted
    delivered,           \* history: events each capture delivered to the GUI thread
    calls,               \* results of the get_sorted_captures calls since the last change of the directory
    dir_status,          \* the captures directory: "ok", "missing", or "denied" (os.listdir raises OSError)
    nm_current,          \* NavigationManager.current_image
    deleted_mtime,       \* history: the modification time the current image had when it was deleted
    nav_query,           \* the last NavigationManager call: its arguments, the listing it read, its result
    q_pc,                \* position of a get_previous_image call whose filesystem reads are single steps
    q_listing,           \* what that call's running loop has still to go through
    q_image_files,       \* that call's image_files
    q_keys,              \* the sort keys list.sort has computed so far
    q_current_mtime,     \* that call's current_mtime
    q_result,            \* that call's prev_image
    settings,            \* ConfigManager.settings
    config_file,         \* the configuration file
    saved,               \* history: the mapping of the last save_config, until the file is written again
    nav_request          \* history: the last navigation request made of the window (previous, next)

vars == <<now, capture_dir_abs, files, config, options, capture_thread, output_callback, pc, cmd, plan, pipe,
          output_lines, eventQueue, capture_button, last_captured_image, original_pixmap,
          save_button, clear_button, prev_button, next_button, nav_info_label, request_outcome,
          dest, delivered, calls, dir_status, nm_current, deleted_mtime, nav_query,
          q_pc, q_listing, q_image_files, q_keys, q_current_mtime, q_result, settings, config_file,
          saved, nav_request>>

\* the state of the NavigationManager, of a call in steps, and of the ConfigManager
navigation == <<dir_status, nm_current, deleted_mtime, nav_query>>
stepwise == <<q_pc, q_listing, q_image_files, q_keys, q_current_mtime, q_result>>
configuration == <<settings, config_file, saved>>
aside == <<navigation, stepwise, configuration>>

\* ------------------------------------------------- the captures directory
\* os.listdir: the entries of the directory, in arbitrary order.
Listings(d) == {s \in [1..Cardinality(DOMAIN d) -> DOMAIN d] : \A i, j \in DOMAIN s : s[i] = s[j] => i = j}

\* (mutant) the name is compared as it is written
Lower_verbatim(ext) == ext
\* filename.lower(), of the extension
Lower(ext) == CASE ext = ".JPG" -> ".jpg" [] ext = ".PNG" -> ".png" [] OTHER -> ext
ImageExtensions == {".png", ".jpg", ".jpeg", ".bmp"}

\* filename.lower().endswith(...) and os.path.isfile(filepath)
IsImageFile(d, name) == Lower(name.ext) \in ImageExtensions /\ d[name].isfile

getmtime(d, p) == d[p.name].mtime
exists(d, p) == p.name \in DOMAIN d

\* list.sort(key=getmtime): a stable sort, equal keys keep the order they came in.
InsertByMtime(d, s, p) ==
    LET k == Cardinality({i \in DOMAIN s : getmtime(d, s[i]) <= getmtime(d, p)})
    IN SubSeq(s, 1, k) \o <<p>> \o SubSeq(s, k + 1, Len(s))

RECURSIVE SortByMtime(_, _)
SortByMtime(d, s) ==
    IF s = <<>> THEN <<>>
    ELSE InsertByMtime(d, SortByMtime(d, SubSeq(s, 1, Len(s) - 1)), s[Len(s)])

RECURSIVE ImageFilesOf(_, _, _)
ImageFilesOf(d, dirAbs, listing) ==
    IF listing = <<>> THEN <<>>
    ELSE LET rest == ImageFilesOf(d, dirAbs, Tail(listing))
         IN IF IsImageFile(d, Head(listing)) THEN <<JoinPath(dirAbs, Head(listing))>> \o rest ELSE rest

get_sorted_captures(d, dirAbs, listing) == SortByMtime(d, ImageFilesOf(d, dirAbs, listing))

\* --------------------------------------------------- MainWindow navigation
IndexOf(s, p) == CHOOSE i \in DOMAIN s : s[i] = p /\ \A j \in 1..(i - 1) : s[j] # p
InSeq(s, p) == \E i \in DOMAIN s : s[i] = p

\* the hint both non-empty labels end with (its arrows written <- ->)
NavHint == " | Use <- -> arrow keys to navigate"
\* the label text, as the pieces of its f-string: "", f"Total images: {n} | Use ...", and
\* f"Image {i} of {n} | Use ..."
NavLabel(kind, i, n) ==
    CASE kind = "empty" -> <<>>
      [] kind = "total" -> <<"Total images: ", ToString(n), NavHint>>
      [] kind = "image" -> <<"Image ", ToString(i), " of ", ToString(n), NavHint>>
NavButtons(prev, next, label) == [prev |-> prev, next |-> next, label |-> label]

\* (mutant) the label shows the index of the image as list.index gives it, from 0
update_navigation_buttons_from_zero(d, sorted_captures, current) ==
    IF sorted_captures = <<>> THEN NavButtons(FALSE, FALSE, NavLabel("empty", 0, 0))
    ELSE IF current = NoPath \/ ~exists(d, current)
        THEN NavButtons(Len(sorted_captures) > 0, Len(sorted_captures) > 0,
                        NavLabel("total", 0, Len(sorted_captures)))
    ELSE IF ~InSeq(sorted_captures, current)
        THEN NavButtons(TRUE, TRUE, NavLabel("total", 0, Len(sorted_captures)))
    ELSE LET current_index == IndexOf(sorted_captures, current) - 1
         IN NavButtons(current_index > 0, current_index < Len(sorted_captures) - 1,
                       NavLabel("image", current_index, Len(sorted_captures)))

\* The buttons and the label update_navigation_buttons sets, given the listing it got.
update_navigation_buttons(d, sorted_captures, current) ==
    IF sorted_captures = <<>> THEN NavButtons(FALSE, FALSE, NavLabel("empty", 0, 0))
    ELSE IF current = NoPath \/ ~exists(d, current)
        THEN NavButtons(Len(sorted_captures) > 0, Len(sorted_captures) > 0,
                        NavLabel("total", 0, Len(sorted_captures)))
    ELSE IF ~InSeq(sorted_captures, current)
        THEN NavButtons(TRUE, TRUE, NavLabel("total", 0, Len(sorted_captures)))
    ELSE LET current_index == IndexOf(sorted_captures, current) - 1
         IN NavButtons(current_index > 0, current_index < Len(sorted_captures) - 1,
                       NavLabel("image", current_index + 1, Len(sorted_captures)))

\* display_image(image_path) with the directory listing its update_navigation_buttons reads.
display_image(image_path, current, listing) ==
    IF ~exists(files, image_path)
    THEN UNCHANGED <<original_pixmap, prev_button, next_button, nav_info_label>>
    ELSE LET nav == update_navigation_buttons(files, get_sorted_captures(files, capture_dir_abs, listing), current)
         IN /\ original_pixmap' = image_path
            /\ prev_button' = nav.prev
            /\ next_button' = nav.next
            /\ nav_info_label' = nav.label

\* ------------------------------------------------------------ the capture
TailLen == 5

Msg(kind, reason, code, tail, text, path) ==
    [kind |-> kind, reason |-> reason, code |-> code, tail |-> tail, text |-> text, path |-> path]

\* f"Running: {' '.join(command)}"
RunningLine(c) == Msg("running", "", 0, <<>>, c.name, c.filename)
\* one line of the process, rstrip()ped
OutputLine(line) == Msg("line", "", 0, <<>>, line, NoPath)
\* f"Process failed with code {return_code}: {error_msg}", error_msg the last 5 lines
LastLines(lines) == SubSeq(lines, IF Len(lines) > TailLen THEN Len(lines) - TailLen + 1 ELSE 1, Len(lines))
ProcessFailed(return_code, lines) == Msg("failed", "exit", return_code, LastLines(lines), 0, NoPath)
\* (mutant) a failed start reported as a process that ran and exited non-zero
StartError_as_exit == ProcessFailed(1, <<>>)
\* str(OSError) of a Popen that could not start the process
StartError == Msg("oserror", "start", 0, <<>>, 0, NoPath)
\* f"Error running grab_o_scope: {str(e)}"
ErrorRunning(e) == [e EXCEPT !.kind = "error_running"]
\* the filename finished carries
Filename(path) == Msg("filename", "", 0, <<>>, 0, path)

Event(sig, t, arg) == [sig |-> sig, th |-> t, arg |-> arg]

\* (mutant) the delivery is put in front of the queued ones
Emit_front(queue, sig, t, arg) == <<Event(sig, t, arg)>> \o queue
\* signal.emit from the background thread: a queued delivery to the GUI thread
Emit(queue, sig, t, arg) == Append(queue, Event(sig, t, arg))

\* self.output_callback(line), when a callback is set
Callback(queue, line) ==
    IF output_callback = NoThread THEN queue ELSE Emit(queue, "output", output_callback, line)

\* (mutant) the thread counts as running only once its run() has spawned the process
isRunning_spawned(t) == pc[t] \in {"read", "exit"}
\* QThread.isRunning(): from start() until run() has returned
isRunning(t) == pc[t] \in {"build", "read", "exit"}

\* (mutant) no guard: every request starts a capture
CaptureInProgress_unguarded == FALSE
\* capture_screen's guard: self.capture_thread and self.capture_thread.isRunning()
CaptureInProgress == capture_thread # NoThread /\ isRunning(capture_thread)

IsBlank(line) == line = 0

\* popen: "none" before subprocess.Popen, then "failed" or "started"
NoPlan == [popen |-> "none", lines |-> <<>>, rc |-> 0]
FailedPlan == [popen |-> "failed", lines |-> <<>>, rc |-> 0]
NoCmd == [name |-> "", filename |-> NoPath]

\* the widgets and the image reference of the window, and the navigation asked of it
window == <<capture_button, last_captured_image, original_pixmap, save_button,
            clear_button, prev_button, next_button, nav_info_label, nav_request>>

\* A CaptureThread object that is dropped when self.capture_thread is assigned anew: it has
\* finished and every signal it emitted has been delivered.
Collected(t) == pc[t] \in {"done", "gone"} /\ \A i \in DOMAIN eventQueue : eventQueue[i].th # t

\* (mutant) the timestamped filename is generated before the guard is tested
capture_screen_rejected_late ==
    /\ CaptureInProgress
    /\ request_outcome' = "rejected"
    /\ options' = [options EXCEPT !.filename = JoinPath(capture_dir_abs, CaptureName(now))]
    /\ UNCHANGED <<now, capture_dir_abs, files, config, capture_thread, output_callback, pc,
                   cmd, plan, pipe, output_lines, eventQueue, dest, delivered, calls>>
    /\ UNCHANGED <<window, aside>>

\* MainWindow.capture_screen while a capture is running: log and return
capture_screen_rejected ==
    /\ CaptureInProgress
    /\ request_outcome' = "rejected"
    /\ UNCHANGED <<now, capture_dir_abs, files, config, options, capture_thread, output_callback, pc,
                   cmd, plan, pipe, output_lines, eventQueue, dest, delivered, calls>>
    /\ UNCHANGED <<window, aside>>

\* (mutant) the filename carries the number of the capture after its timestamp
capture_screen_accepted_numbered ==
    /\ ~CaptureInProgress
    /\ \E t \in ThreadIds :
        /\ pc[t] = "none"
        /\ \A u \in ThreadIds : u < t => pc[u] # "none"
        /\ LET filename == JoinPath(capture_dir_abs, CaptureName(now * MaxCaptures + t))
           IN /\ options' = [options EXCEPT !.filename = filename]
              /\ dest' = [u \in ThreadIds |-> IF u = t THEN filename
                                               ELSE IF Collected(u) THEN NoPath ELSE dest[u]]
        /\ plan' = [u \in ThreadIds |-> IF Collected(u) THEN NoPlan ELSE plan[u]]
        /\ delivered' = [u \in ThreadIds |-> IF Collected(u) THEN <<>> ELSE delivered[u]]
        /\ capture_button' = FALSE
        /\ request_outcome' = "accepted"
        /\ capture_thread' = t
        /\ output_callback' = t
        /\ pc' = [u \in ThreadIds |-> IF u = t THEN "build" ELSE IF Collected(u) THEN "gone" ELSE pc[u]]
    /\ UNCHANGED <<now, capture_dir_abs, files, config, cmd, pipe, output_lines, eventQueue,
                   calls, last_captured_image, original_pixmap, save_button,
                   clear_button, prev_button, next_button, nav_info_label, nav_request>>
    /\ UNCHANGED aside

\* MainWindow.capture_screen otherwise: a new CaptureThread is created and started
capture_screen_accepted ==
    /\ ~CaptureInProgress
    /\ \E t \in ThreadIds :
        /\ pc[t] = "none"
        /\ \A u \in ThreadIds : u < t => pc[u] # "none"
        /\ LET filename == JoinPath(capture_dir_abs, CaptureName(now))
           IN /\ options' = [options EXCEPT !.filename = filename]
              /\ dest' = [u \in ThreadIds |-> IF u = t THEN filename
                                               ELSE IF Collected(u) THEN NoPath ELSE dest[u]]
        /\ plan' = [u \in ThreadIds |-> IF Collected(u) THEN NoPlan ELSE plan[u]]
        /\ delivered' = [u \in ThreadIds |-> IF Collected(u) THEN <<>> ELSE delivered[u]]
        /\ capture_button' = FALSE
        /\ request_outcome' = "accepted"
        /\ capture_thread' = t
        /\ output_callback' = t
        /\ pc' = [u \in ThreadIds |-> IF u = t THEN "build" ELSE IF Collected(u) THEN "gone" ELSE pc[u]]
    /\ UNCHANGED <<now, capture_dir_abs, files, config, cmd, pipe, output_lines, eventQueue,
                   calls, last_captured_image, original_pixmap, save_button,
                   clear_button, prev_button, next_button, nav_info_label, nav_request>>
    /\ UNCHANGED aside

\* (mutant) only a negative exit code (death by signal) counts as failure
ExitFailed_signal(return_code) == return_code < 0
\* if return_code != 0
ExitFailed(return_code) == return_code # 0

\* The file a process that exits 0 has written to the path of its --filename argument.
WriteFile(d, name, mtime) ==
    [n \in DOMAIN d \cup {name} |-> IF n = name THEN [isfile |-> TRUE, mtime |-> mtime] ELSE d[n]]

\* (mutant) the exception is logged and swallowed: run emits nothing
RaiseToRun_swallowed(queue, t, e) == Callback(queue, ErrorRunning(e))
\* run_grab_o_scope's except Exception: the error line is forwarded and the exception raised
\* again, through capture_screen, to CaptureThread.run, whose except emits error(str(e)).
RaiseToRun(queue, t, e) == Emit(Callback(queue, ErrorRunning(e)), "error", t, ErrorRunning(e))

\* CaptureThread.run up to subprocess.Popen: the command is built from the options and
\* announced; the process starts (what it writes and how it exits is its own), or does not.
ThreadStart(t) ==
    /\ pc[t] = "build"
    /\ LET c == [name |-> options.name, filename |-> options.filename]
           announced == Callback(eventQueue, RunningLine(c))
       IN /\ cmd' = [cmd EXCEPT ![t] = c]
          /\ \/ /\ plan' = [plan EXCEPT ![t] = FailedPlan]
                /\ eventQueue' = RaiseToRun(announced, t, StartError)
                /\ pc' = [pc EXCEPT ![t] = "exit"]
                /\ UNCHANGED pipe
             \/ \E lines \in PlanLines, rc \in ExitCodes :
                /\ plan' = [plan EXCEPT ![t] = [popen |-> "started", lines |-> lines, rc |-> rc]]
                /\ pipe' = [pipe EXCEPT ![t] = lines]
                /\ eventQueue' = announced
                /\ pc' = [pc EXCEPT ![t] = "read"]
    /\ UNCHANGED <<now, capture_dir_abs, files, config, options, capture_thread, output_callback,
                   output_lines, request_outcome, dest, delivered, calls>>
    /\ UNCHANGED <<window, aside>>

\* for line in process.stdout: one line read, kept and forwarded unless blank
ThreadRead(t) ==
    /\ pc[t] = "read"
    /\ pipe[t] # <<>>
    /\ pipe' = [pipe EXCEPT ![t] = Tail(pipe[t])]
    /\ IF IsBlank(Head(pipe[t]))
       THEN UNCHANGED <<output_lines, eventQueue>>
       ELSE /\ output_lines' = [output_lines EXCEPT ![t] = Append(output_lines[t], Head(pipe[t]))]
            /\ eventQueue' = Callback(eventQueue, OutputLine(Head(pipe[t])))
    /\ UNCHANGED <<now, capture_dir_abs, files, config, options, capture_thread, output_callback,
                   pc, cmd, plan, request_outcome, dest, delivered, calls>>
    /\ UNCHANGED <<window, aside>>

\* end of output and process.wait(): the process has exited. Exit code 0: run_grab_o_scope
\* returns, capture_screen returns self.options.filename and run emits finished(filename).
\* Otherwise the failure is raised to run.
ThreadWait(t) ==
    /\ pc[t] = "read"
    /\ pipe[t] = <<>>
    /\ IF ExitFailed(plan[t].rc)
       THEN /\ eventQueue' = RaiseToRun(eventQueue, t, ProcessFailed(plan[t].rc, output_lines[t]))
            /\ UNCHANGED <<files, calls>>
       ELSE /\ files' = WriteFile(files, cmd[t].filename.name, now)
            /\ calls' = <<>>
            /\ eventQueue' = Emit(eventQueue, "finished", t, Filename(options.filename))
    /\ pc' = [pc EXCEPT ![t] = "exit"]
    /\ UNCHANGED <<now, capture_dir_abs, config, options, capture_thread, output_callback,
                   cmd, plan, pipe, output_lines, request_outcome, dest, delivered>>
    /\ UNCHANGED <<window, aside>>

\* (mutant) a capture whose process exited non-zero is run again
ThreadExit_retry(t) ==
    /\ pc[t] = "exit"
    /\ pc' = [pc EXCEPT ![t] = IF plan[t].popen = "started" /\ plan[t].rc # 0 THEN "build" ELSE "done"]
    /\ cmd' = [cmd EXCEPT ![t] = NoCmd]
    /\ output_lines' = [output_lines EXCEPT ![t] = <<>>]
    /\ UNCHANGED <<now, capture_dir_abs, files, config, options, capture_thread, output_callback,
                   plan, pipe, eventQueue, request_outcome, dest, delivered, calls>>
    /\ UNCHANGED <<window, aside>>

\* run() has returned: the thread is no longer running, its locals are gone
ThreadExit(t) ==
    /\ pc[t] = "exit"
    /\ pc' = [pc EXCEPT ![t] = "done"]
    /\ cmd' = [cmd EXCEPT ![t] = NoCmd]
    /\ output_lines' = [output_lines EXCEPT ![t] = <<>>]
    /\ UNCHANGED <<now, capture_dir_abs, files, config, options, capture_thread, output_callback,
                   plan, pipe, eventQueue, request_outcome, dest, delivered, calls>>
    /\ UNCHANGED <<window, aside>>

\* ------------------------------------------------- the GUI thread's slots
Delivered(e) == [sig |-> e.sig, arg |-> e.arg]

\* MainWindow.log, connected to CaptureThread.output
on_output(e) ==
    UNCHANGED window

\* MainWindow.on_capture_finished(filename)
on_capture_finished(e) ==
    /\ capture_button' = TRUE
    /\ last_captured_image' = AbsPath(e.arg.path)
    /\ \E listing \in Listings(files) :
          display_image(AbsPath(e.arg.path), AbsPath(e.arg.path), listing)
    /\ save_button' = TRUE
    /\ clear_button' = TRUE
    /\ UNCHANGED nav_request

\* (mutant) a failed capture clears the image reference
on_capture_error_clearing(e) ==
    /\ capture_button' = TRUE
    /\ last_captured_image' = NoPath
    /\ UNCHANGED <<original_pixmap, save_button, clear_button, prev_button,
                   next_button, nav_info_label, nav_request>>

\* (mutant) a failed capture leaves the capture button as it is
on_capture_error_button_left(e) ==
    UNCHANGED <<capture_button, last_captured_image, original_pixmap, save_button, clear_button,
                prev_button, next_button, nav_info_label, nav_request>>

\* MainWindow.on_capture_error(error_msg)
on_capture_error(e) ==
    /\ capture_button' = TRUE
    /\ UNCHANGED <<last_captured_image, original_pixmap, save_button, clear_button, prev_button,
                   next_button, nav_info_label, nav_request>>

\* The GUI thread's event loop takes the oldest queued signal delivery and runs its slot.
DeliverEvent ==
    /\ eventQueue # <<>>
    /\ LET e == Head(eventQueue)
       IN /\ eventQueue' = Tail(eventQueue)
          /\ delivered' = [delivered EXCEPT ![e.th] = Append(delivered[e.th], Delivered(e))]
          /\ CASE e.sig = "output" -> on_output(e)
               [] e.sig = "finished" -> on_capture_finished(e)
               [] e.sig = "error" -> on_capture_error(e)
    /\ UNCHANGED <<now, capture_dir_abs, files, config, options, capture_thread, output_callback,
                   pc, cmd, plan, pipe, output_lines, request_outcome, dest, calls>>
    /\ UNCHANGED aside

\* a second of wall-clock time passes
Tick ==
    /\ now < MaxClock
    /\ now' = now + 1
    /\ UNCHANGED <<capture_dir_abs, files, config, options, capture_thread, output_callback, pc,
                   cmd, plan, pipe, output_lines, eventQueue, request_outcome, dest, delivered, calls>>
    /\ UNCHANGED <<window, aside>>

\* ------------------------------------------- values of NavigationManager
NoIndex == -1
NoState == [prev_enabled |-> FALSE, next_enabled |-> FALSE, info_text |-> <<>>, total_count |-> 0,
            current_index |-> NoIndex]
NoQuery == [op |-> "none", arg |-> NoPath, current |-> NoPath, list |-> <<>>, raised |-> FALSE,
            state |-> NoState, image |-> NoPath]


\* ----------------------------------------------- values of ConfigManager
\* Python values of the settings: str and bool
PyStr(text) == [type |-> "str", v |-> text]
PyBool(b) == [type |-> "bool", v |-> IF b THEN "True" ELSE "False"]

\* (mutant) a bool is written as its str(): a JSON string
JsonDumps_str(value) == [token |-> "string", text |-> value.v]
\* json.dump of a value: a str is a JSON string, a bool the literal true or false
JsonDumps(value) ==
    IF value.type = "str" THEN [token |-> "string", text |-> value.v]
    ELSE [token |-> "literal", text |-> IF value.v = "True" THEN "true" ELSE "false"]
\* json.load of a value
JsonLoads(json) ==
    IF json.token = "string" THEN PyStr(json.text) ELSE PyBool(json.text = "true")

EmptyMapping == [k \in {} |-> PyStr("")]
\* json.dump(self.settings, file) and json.load(file) of a JSON object
JsonDump(mapping) == [k \in DOMAIN mapping |-> JsonDumps(mapping[k])]
JsonLoad(doc) == [k \in DOMAIN doc |-> JsonLoads(doc[k])]

\* the configuration file: absent, a JSON document, or not JSON
NoFile == [state |-> "absent", doc |-> JsonDump(EmptyMapping)]
Garbage == [state |-> "garbage", doc |-> JsonDump(EmptyMapping)]
JsonFile(mapping) == [state |-> "json", doc |-> JsonDump(mapping)]

\* the default settings of load_settings
DefaultSettings ==
    [k \in {"instrument_name", "output_filename", "output_directory", "trace_mode"} |->
        CASE k = "instrument_name" -> PyStr("")
          [] k = "output_filename" -> PyStr("grab-o-scope.png")
          [] k = "output_directory" -> PyStr("")
          [] k = "trace_mode" -> PyBool(FALSE)]

\* The mappings given to save_config and the values given to set_setting.
SettingKeys == {"trace_mode", "oscilloscope_address"}
SettingValues == {PyStr(""), PyStr("TCPIP0::192.168.1.100::INSTR"), PyBool(TRUE), PyBool(FALSE)}
SettingMappings == UNION {[keys -> SettingValues] : keys \in SUBSET SettingKeys}

NoSaved == [last |-> "none", mapping |-> EmptyMapping, valid |-> FALSE]

\* what load_settings leaves in self.settings and in the file
load_settings(file) ==
    CASE file.state = "json" -> [settings |-> JsonLoad(file.doc), file |-> file]
      [] file.state = "absent" -> [settings |-> DefaultSettings, file |-> JsonFile(DefaultSettings)]
      [] file.state = "garbage" -> [settings |-> EmptyMapping, file |-> file]

\* the NavigationManager, the call in steps and the ConfigManager at rest
InitNavigation == dir_status = "ok" /\ nm_current = NoPath /\ deleted_mtime = 0 /\ nav_query = NoQuery
InitStepwise ==
    /\ q_pc = "idle"
    /\ q_listing = <<>>
    /\ q_image_files = <<>>
    /\ q_keys = <<>>
    /\ q_current_mtime = 0
    /\ q_result = NoPath
\* the ConfigManager of MainWindow.__init__, constructed with no configuration file
InitConfigured ==
    /\ settings = DefaultSettings
    /\ config_file = JsonFile(DefaultSettings)
    /\ saved = [last |-> "init_default", mapping |-> EmptyMapping, valid |-> FALSE]


\* ------------------------------------------------------- specifications
EmptyDirectory == [n \in {} |-> [isfile |-> TRUE, mtime |-> 0]]

\* MainWindow.__init__ on an empty captures directory
InitWindow ==
    /\ config = ""
    /\ options = [name |-> config, filename |-> NoPath]
    /\ capture_thread = NoThread
    /\ output_callback = NoThread
    /\ pc = [t \in ThreadIds |-> "none"]
    /\ cmd = [t \in ThreadIds |-> NoCmd]
    /\ plan = [t \in ThreadIds |-> NoPlan]
    /\ pipe = [t \in ThreadIds |-> <<>>]
    /\ output_lines = [t \in ThreadIds |-> <<>>]
    /\ eventQueue = <<>>
    /\ capture_button = TRUE
    /\ last_captured_image = NoPath
    /\ original_pixmap = NoPath
    /\ save_button = FALSE
    /\ clear_button = FALSE
    /\ request_outcome = "none"
    /\ nav_request = "none"
    /\ dest = [t \in ThreadIds |-> NoPath]
    /\ delivered = [t \in ThreadIds |-> <<>>]
    /\ calls = <<>>

Init ==
    /\ now = 1
    /\ capture_dir_abs = TRUE
    /\ files = EmptyDirectory
    /\ prev_button = FALSE
    /\ next_button = FALSE
    /\ nav_info_label = NavLabel("empty", 0, 0)
    /\ InitWindow /\ InitNavigation /\ InitStepwise /\ InitConfigured

ThreadStep(t) ==
    \/ ThreadStart(t)
    \/ ThreadRead(t)
    \/ ThreadWait(t)
    \/ ThreadExit(t)

Next ==
    \/ capture_screen_rejected
    \/ capture_screen_accepted
    \/ \E t \in ThreadIds : ThreadStep(t)
    \/ DeliverEvent
    \/ Tick

Spec == Init /\ [][Next]_vars

\* capture_button.clicked -> capture_screen: a click reaches capture_screen only while the
\* button is enabled.
click_capture_rejected == capture_button /\ capture_screen_rejected
click_capture_accepted == capture_button /\ capture_screen_accepted

NextClick ==
    \/ click_capture_rejected
    \/ click_capture_accepted
    \/ \E t \in ThreadIds : ThreadStep(t)
    \/ DeliverEvent
    \/ Tick

\* The event loop takes the oldest queued delivery: the steps of DeliverEvent, and enabled
\* exactly when DeliverEvent is.
EventTaken == eventQueue # <<>> /\ eventQueue' = Tail(eventQueue)

\* The window driven through its capture button. WF: a started thread is scheduled and the
\* external process terminates; the event loop runs.
SpecLive ==
    /\ Init /\ [][NextClick]_vars
    /\ WF_eventQueue(EventTaken)
    /\ \A t \in ThreadIds : WF_vars(ThreadStep(t))

\* ------------------------------------------- the directory, as a function
\* Directories of up to MaxEntries entries: images, an image with an upper-case extension, a
\* file that is no image, and a subdirectory named like an image.
EntryKinds == {[ext |-> ".png", isfile |-> TRUE], [ext |-> ".JPG", isfile |-> TRUE],
               [ext |-> ".txt", isfile |-> TRUE], [ext |-> ".png", isfile |-> FALSE]}
Absent == [present |-> FALSE, ext |-> "", isfile |-> FALSE, mtime |-> 0]
EntrySlots == {Absent} \cup {[present |-> TRUE, ext |-> k.ext, isfile |-> k.isfile, mtime |-> m] :
                                k \in EntryKinds, m \in 1..MaxMtime}
DirectoryOf(f) ==
    [n \in {[base |-> i, ext |-> f[i].ext] : i \in {j \in DOMAIN f : f[j].present}} |->
        [isfile |-> f[n.base].isfile, mtime |-> f[n.base].mtime]]
Directories == {DirectoryOf(f) : f \in [1..MaxEntries -> EntrySlots]}

RemoveEntry(d, name) == [n \in DOMAIN d \ {name} |-> d[n]]

\* NavigationManager.get_sorted_captures / MainWindow.get_sorted_captures, called
list_captures ==
    /\ Len(calls) < 2
    /\ \E listing \in Listings(files) :
          calls' = Append(calls, get_sorted_captures(files, capture_dir_abs, listing))
    /\ UNCHANGED <<now, capture_dir_abs, files, config, options, capture_thread, output_callback,
                   pc, cmd, plan, pipe, output_lines, eventQueue, request_outcome, dest, delivered>>
    /\ UNCHANGED <<window, aside>>

\* another process deletes an entry of the directory
external_remove ==
    /\ \E name \in DOMAIN files : files' = RemoveEntry(files, name)
    /\ calls' = <<>>
    /\ UNCHANGED <<now, capture_dir_abs, config, options, capture_thread, output_callback,
                   pc, cmd, plan, pipe, output_lines, eventQueue, request_outcome, dest, delivered>>
    /\ UNCHANGED <<window, aside>>

InitNav ==
    /\ now = 1
    /\ capture_dir_abs = TRUE
    /\ files \in Directories
    /\ prev_button = FALSE
    /\ next_button = FALSE
    /\ nav_info_label = NavLabel("empty", 0, 0)
    /\ InitWindow /\ InitNavigation /\ InitStepwise /\ InitConfigured

NextNav ==
    \/ list_captures
    \/ external_remove

SpecNav == InitNav /\ [][NextNav]_vars

\* --------------------------------------------------- NavigationManager
\* NavigationManager.get_sorted_captures: [] when the directory does not exist; os.listdir
\* raises when the directory cannot be listed, and nothing catches it
nm_get_sorted_captures(status, d, dirAbs, listing) ==
    [raised |-> status = "denied",
     value |-> IF status = "ok" THEN get_sorted_captures(d, dirAbs, listing) ELSE <<>>]

\* what the call can return, over the orders os.listdir may yield
Listed(status, d, dirAbs) == {nm_get_sorted_captures(status, d, dirAbs, listing) : listing \in Listings(d)}

\* (mutant) the boundary test of the normal state is off by one
NormalState_shifted(current_index, total_count) ==
    [prev_enabled |-> current_index >= 0, next_enabled |-> current_index < total_count - 1,
     info_text |-> NavLabel("image", current_index + 1, total_count),
     total_count |-> total_count, current_index |-> current_index]
\* (mutant) the position is reported counted from 1, as the label shows it
NormalState_onebased(current_index, total_count) ==
    [prev_enabled |-> current_index > 0, next_enabled |-> current_index < total_count - 1,
     info_text |-> NavLabel("image", current_index + 1, total_count),
     total_count |-> total_count, current_index |-> current_index + 1]
\* the dict of the normal state: the image is in the list
NormalState(current_index, total_count) ==
    [prev_enabled |-> current_index > 0, next_enabled |-> current_index < total_count - 1,
     info_text |-> NavLabel("image", current_index + 1, total_count),
     total_count |-> total_count, current_index |-> current_index]

\* (mutant) the test for no captures is left out
get_navigation_state_unguarded(d, sorted_captures, current) ==
    LET total_count == Len(sorted_captures)
    IN IF current = NoPath \/ ~exists(d, current) \/ ~InSeq(sorted_captures, current)
       THEN [prev_enabled |-> total_count > 0, next_enabled |-> total_count > 0,
             info_text |-> NavLabel("total", 0, total_count),
             total_count |-> total_count, current_index |-> NoIndex]
       ELSE NormalState(IndexOf(sorted_captures, current) - 1, total_count)
\* NavigationManager.get_navigation_state after self.current_image is updated
get_navigation_state(d, sorted_captures, current) ==
    LET total_count == Len(sorted_captures)
    IN IF sorted_captures = <<>>
       THEN [prev_enabled |-> FALSE, next_enabled |-> FALSE, info_text |-> NavLabel("empty", 0, 0),
             total_count |-> 0, current_index |-> NoIndex]
       ELSE IF current = NoPath \/ ~exists(d, current)
       THEN [prev_enabled |-> total_count > 0, next_enabled |-> total_count > 0,
             info_text |-> NavLabel("total", 0, total_count),
             total_count |-> total_count, current_index |-> NoIndex]
       ELSE IF ~InSeq(sorted_captures, current)
       THEN [prev_enabled |-> TRUE, next_enabled |-> TRUE,
             info_text |-> NavLabel("total", 0, total_count),
             total_count |-> total_count, current_index |-> NoIndex]
       ELSE NormalState(IndexOf(sorted_captures, current) - 1, total_count)

\* os.path.getmtime(img) < current_mtime, current_mtime being 0 when the current image does not exist
Older(d, img, current) == getmtime(d, img) < (IF exists(d, current) THEN getmtime(d, current) ELSE 0)
\* os.path.getmtime(img) > current_mtime, current_mtime being float('inf') when it does not exist
Newer(d, img, current) == exists(d, current) /\ getmtime(d, img) > getmtime(d, current)

\* for img in sorted_captures: ... else: break -- how many leading images are older
RECURSIVE LeadingOlder(_, _, _)
LeadingOlder(d, s, current) ==
    IF s = <<>> \/ ~Older(d, Head(s), current) THEN 0 ELSE 1 + LeadingOlder(d, Tail(s), current)
\* for img in reversed(sorted_captures): ... else: break -- how many trailing images are newer
RECURSIVE TrailingNewer(_, _, _)
TrailingNewer(d, s, current) ==
    IF s = <<>> \/ ~Newer(d, s[Len(s)], current) THEN 0
    ELSE 1 + TrailingNewer(d, SubSeq(s, 1, Len(s) - 1), current)

\* (mutant) from the oldest image, previous wraps around to the newest
get_previous_image_wrapping(d, sorted_captures, current) ==
    IF current = NoPath
    THEN IF sorted_captures # <<>> THEN sorted_captures[Len(sorted_captures)] ELSE NoPath
    ELSE IF sorted_captures = <<>> THEN NoPath
    ELSE IF ~InSeq(sorted_captures, current)
    THEN LET k == LeadingOlder(d, sorted_captures, current)
         IN IF k = 0 THEN NoPath ELSE sorted_captures[k]
    ELSE LET current_index == IndexOf(sorted_captures, current) - 1
         IN IF current_index > 0 THEN sorted_captures[current_index]
            ELSE sorted_captures[Len(sorted_captures)]
\* NavigationManager.get_previous_image
get_previous_image(d, sorted_captures, current) ==
    IF current = NoPath
    THEN IF sorted_captures # <<>> THEN sorted_captures[Len(sorted_captures)] ELSE NoPath
    ELSE IF sorted_captures = <<>> THEN NoPath
    ELSE IF ~InSeq(sorted_captures, current)
    THEN LET k == LeadingOlder(d, sorted_captures, current)
         IN IF k = 0 THEN NoPath ELSE sorted_captures[k]
    ELSE LET current_index == IndexOf(sorted_captures, current) - 1
         IN IF current_index > 0 THEN sorted_captures[current_index] ELSE NoPath

\* NavigationManager.get_next_image
get_next_image(d, sorted_captures, current) ==
    IF current = NoPath
    THEN IF sorted_captures # <<>> THEN sorted_captures[1] ELSE NoPath
    ELSE IF sorted_captures = <<>> THEN NoPath
    ELSE IF ~InSeq(sorted_captures, current)
    THEN LET k == TrailingNewer(d, sorted_captures, current)
         IN IF k = 0 THEN NoPath ELSE sorted_captures[Len(sorted_captures) - k + 1]
    ELSE LET current_index == IndexOf(sorted_captures, current) - 1
         IN IF current_index < Len(sorted_captures) - 1 THEN sorted_captures[current_index + 2]
            ELSE NoPath

\* The directories the navigation calls are made on: image files and files that are no images.
QueryKinds == {[ext |-> ".png", isfile |-> TRUE], [ext |-> ".txt", isfile |-> TRUE]}
QuerySlots == {Absent} \cup {[present |-> TRUE, ext |-> k.ext, isfile |-> k.isfile, mtime |-> m] :
                                k \in QueryKinds, m \in 1..MaxMtime}
\* (only the first entry may be the file that is no image: one such file is enough for a
\* current image that exists and is not listed)
QueryDirectories ==
    {DirectoryOf(f) : f \in {g \in [1..MaxEntries -> QuerySlots] :
                                \A i \in 2..MaxEntries : g[i].ext # ".txt"}}
\* The current_image arguments: None, or the path of a name in the captures directory.
CurrentArgs ==
    {NoPath} \cup {JoinPath(TRUE, [base |-> i, ext |-> ".png"]) : i \in 1..MaxEntries}
             \cup {JoinPath(TRUE, [base |-> 1, ext |-> ".txt"])}

\* nm.get_navigation_state(current_image)
nav_state ==
    /\ \E arg \in CurrentArgs, listed \in Listed(dir_status, files, capture_dir_abs) :
        LET current == IF arg # NoPath THEN arg ELSE nm_current
        IN /\ nm_current' = current
           /\ deleted_mtime' = IF current = nm_current THEN deleted_mtime ELSE 0
           /\ nav_query' = [op |-> "get_navigation_state", arg |-> arg, current |-> current,
                            list |-> listed.value, raised |-> listed.raised,
                            state |-> IF listed.raised THEN NoState
                                      ELSE get_navigation_state(files, listed.value, current),
                            image |-> NoPath]
    /\ UNCHANGED <<now, capture_dir_abs, files, config, options, capture_thread, output_callback,
                   pc, cmd, plan, pipe, output_lines, eventQueue, request_outcome, dest, delivered,
                   calls, dir_status, window, stepwise, configuration>>

\* nm.get_previous_image()
nav_previous ==
    /\ \E listed \in Listed(dir_status, files, capture_dir_abs) :
           nav_query' = [op |-> "get_previous_image", arg |-> NoPath, current |-> nm_current,
                         list |-> listed.value, raised |-> listed.raised, state |-> NoState,
                         image |-> IF listed.raised THEN NoPath
                                   ELSE get_previous_image(files, listed.value, nm_current)]
    /\ UNCHANGED <<now, capture_dir_abs, files, config, options, capture_thread, output_callback,
                   pc, cmd, plan, pipe, output_lines, eventQueue, request_outcome, dest, delivered,
                   calls, dir_status, nm_current, deleted_mtime, window, stepwise, configuration>>

\* nm.get_next_image()
nav_next ==
    /\ \E listed \in Listed(dir_status, files, capture_dir_abs) :
           nav_query' = [op |-> "get_next_image", arg |-> NoPath, current |-> nm_current,
                         list |-> listed.value, raised |-> listed.raised, state |-> NoState,
                         image |-> IF listed.raised THEN NoPath
                                   ELSE get_next_image(files, listed.value, nm_current)]
    /\ UNCHANGED <<now, capture_dir_abs, files, config, options, capture_thread, output_callback,
                   pc, cmd, plan, pipe, output_lines, eventQueue, request_outcome, dest, delivered,
                   calls, dir_status, nm_current, deleted_mtime, window, stepwise, configuration>>

\* another process deletes the file the current image names
delete_current ==
    /\ nm_current # NoPath
    /\ exists(files, nm_current)
    /\ files' = RemoveEntry(files, nm_current.name)
    /\ deleted_mtime' = getmtime(files, nm_current)
    /\ nav_query' = NoQuery
    /\ UNCHANGED <<now, capture_dir_abs, config, options, capture_thread, output_callback,
                   pc, cmd, plan, pipe, output_lines, eventQueue, request_outcome, dest, delivered,
                   calls, dir_status, nm_current, window, stepwise, configuration>>

\* ------------------------------- get_previous_image, one filesystem read a step
\* the directory as the sort keys read so far describe it
KeyedDirectory(image_files, keys) ==
    [n \in {image_files[i].name : i \in DOMAIN keys} |->
        [isfile |-> TRUE, mtime |-> keys[CHOOSE i \in DOMAIN keys : image_files[i].name = n]]]

\* os.listdir(capture_dir)
q_listdir ==
    /\ q_pc = "idle"
    /\ \E listing \in Listings(files) : q_listing' = listing
    /\ q_pc' = "filter"
    /\ UNCHANGED <<q_image_files, q_keys, q_current_mtime, q_result>>
    /\ UNCHANGED <<now, capture_dir_abs, files, config, options, capture_thread, output_callback,
                   pc, cmd, plan, pipe, output_lines, eventQueue, request_outcome, dest, delivered,
                   calls, window, navigation, configuration>>

\* one turn of the loop over the listing: the extension test and os.path.isfile(filepath)
q_filter ==
    /\ q_pc = "filter"
    /\ q_listing # <<>>
    /\ LET filename == Head(q_listing)
       IN /\ q_listing' = Tail(q_listing)
          /\ q_image_files' =
                IF Lower(filename.ext) \in ImageExtensions /\ filename \in DOMAIN files
                   /\ files[filename].isfile
                THEN Append(q_image_files, JoinPath(capture_dir_abs, filename))
                ELSE q_image_files
    /\ UNCHANGED <<q_pc, q_keys, q_current_mtime, q_result>>
    /\ UNCHANGED <<now, capture_dir_abs, files, config, options, capture_thread, output_callback,
                   pc, cmd, plan, pipe, output_lines, eventQueue, request_outcome, dest, delivered,
                   calls, window, navigation, configuration>>

\* image_files.sort(key=...): the key of the next image is read; os.path.getmtime raises
\* FileNotFoundError when the file is gone
q_key ==
    /\ q_pc = "filter"
    /\ q_listing = <<>>
    /\ Len(q_keys) < Len(q_image_files)
    /\ LET img == q_image_files[Len(q_keys) + 1]
       IN IF exists(files, img)
          THEN q_keys' = Append(q_keys, getmtime(files, img)) /\ UNCHANGED q_pc
          ELSE q_pc' = "raised" /\ UNCHANGED q_keys
    /\ UNCHANGED <<q_listing, q_image_files, q_current_mtime, q_result>>
    /\ UNCHANGED <<now, capture_dir_abs, files, config, options, capture_thread, output_callback,
                   pc, cmd, plan, pipe, output_lines, eventQueue, request_outcome, dest, delivered,
                   calls, window, navigation, configuration>>

\* the list is sorted by the keys read, and get_previous_image goes on with it: it returns
\* at once unless the current image is set and not in the list
q_sorted ==
    /\ q_pc = "filter"
    /\ q_listing = <<>>
    /\ Len(q_keys) = Len(q_image_files)
    /\ LET sorted_captures == SortByMtime(KeyedDirectory(q_image_files, q_keys), q_image_files)
       IN /\ q_image_files' = sorted_captures
          /\ IF nm_current # NoPath /\ sorted_captures # <<>> /\ ~InSeq(sorted_captures, nm_current)
             THEN q_pc' = "stale" /\ UNCHANGED q_result
             ELSE /\ q_pc' = "returned"
                  /\ q_result' = get_previous_image(KeyedDirectory(q_image_files, q_keys),
                                                    sorted_captures, nm_current)
    /\ UNCHANGED <<q_listing, q_keys, q_current_mtime>>
    /\ UNCHANGED <<now, capture_dir_abs, files, config, options, capture_thread, output_callback,
                   pc, cmd, plan, pipe, output_lines, eventQueue, request_outcome, dest, delivered,
                   calls, window, navigation, configuration>>

\* os.path.exists(self.current_image) of the conditional expression
q_exists ==
    /\ q_pc = "stale"
    /\ IF exists(files, nm_current)
       THEN q_pc' = "getmtime" /\ UNCHANGED <<q_current_mtime, q_listing>>
       ELSE q_pc' = "scan" /\ q_current_mtime' = 0 /\ q_listing' = q_image_files
    /\ UNCHANGED <<q_image_files, q_keys, q_result>>
    /\ UNCHANGED <<now, capture_dir_abs, files, config, options, capture_thread, output_callback,
                   pc, cmd, plan, pipe, output_lines, eventQueue, request_outcome, dest, delivered,
                   calls, window, navigation, configuration>>

\* os.path.getmtime(self.current_image) after exists answered True
q_getmtime ==
    /\ q_pc = "getmtime"
    /\ IF exists(files, nm_current)
       THEN /\ q_pc' = "scan"
            /\ q_current_mtime' = getmtime(files, nm_current)
            /\ q_listing' = q_image_files
       ELSE q_pc' = "raised" /\ UNCHANGED <<q_current_mtime, q_listing>>
    /\ UNCHANGED <<q_image_files, q_keys, q_result>>
    /\ UNCHANGED <<now, capture_dir_abs, files, config, options, capture_thread, output_callback,
                   pc, cmd, plan, pipe, output_lines, eventQueue, request_outcome, dest, delivered,
                   calls, window, navigation, configuration>>

\* one turn of for img in sorted_captures: os.path.getmtime(img) < current_mtime, else break
q_scan ==
    /\ q_pc = "scan"
    /\ IF q_listing = <<>>
       THEN q_pc' = "returned" /\ UNCHANGED <<q_listing, q_result>>
       ELSE LET img == Head(q_listing)
            IN IF ~exists(files, img)
               THEN q_pc' = "raised" /\ UNCHANGED <<q_listing, q_result>>
               ELSE IF getmtime(files, img) < q_current_mtime
               THEN q_result' = img /\ q_listing' = Tail(q_listing) /\ UNCHANGED q_pc
               ELSE q_pc' = "returned" /\ UNCHANGED <<q_listing, q_result>>
    /\ UNCHANGED <<q_image_files, q_keys, q_current_mtime>>
    /\ UNCHANGED <<now, capture_dir_abs, files, config, options, capture_thread, output_callback,
                   pc, cmd, plan, pipe, output_lines, eventQueue, request_outcome, dest, delivered,
                   calls, window, navigation, configuration>>

\* ------------------------------------------------------- ConfigManager
\* ConfigManager.__init__: self.settings = {}, then load_settings
ConfigManager_init ==
    /\ saved.last = "none"
    /\ settings' = load_settings(config_file).settings
    /\ config_file' = load_settings(config_file).file
    /\ saved' = [saved EXCEPT !.last = IF config_file.state = "absent" THEN "init_default" ELSE "init"]
    /\ UNCHANGED <<now, capture_dir_abs, files, config, options, capture_thread, output_callback,
                   pc, cmd, plan, pipe, output_lines, eventQueue, request_outcome, dest, delivered,
                   calls, window, navigation, stepwise>>

\* ConfigManager.save_config(config_data)
save_config ==
    /\ saved.last # "none"
    /\ \E config_data \in SettingMappings :
        /\ settings' = config_data
        /\ config_file' = JsonFile(config_data)
        /\ saved' = [last |-> "save_config", mapping |-> config_data, valid |-> TRUE]
    /\ UNCHANGED <<now, capture_dir_abs, files, config, options, capture_thread, output_callback,
                   pc, cmd, plan, pipe, output_lines, eventQueue, request_outcome, dest, delivered,
                   calls, window, navigation, stepwise>>

\* ConfigManager.load_config()
load_config ==
    /\ saved.last # "none"
    /\ settings' = load_settings(config_file).settings
    /\ config_file' = load_settings(config_file).file
    /\ saved' = [saved EXCEPT !.last = "load_config"]
    /\ UNCHANGED <<now, capture_dir_abs, files, config, options, capture_thread, output_callback,
                   pc, cmd, plan, pipe, output_lines, eventQueue, request_outcome, dest, delivered,
                   calls, window, navigation, stepwise>>

\* ConfigManager.set_setting(key, value)
set_setting ==
    /\ saved.last # "none"
    /\ \E key \in SettingKeys, value \in SettingValues :
        LET updated == [k \in DOMAIN settings \cup {key} |-> IF k = key THEN value ELSE settings[k]]
        IN /\ settings' = updated
           /\ config_file' = JsonFile(updated)
    /\ saved' = [saved EXCEPT !.last = "set_setting", !.valid = FALSE]
    /\ UNCHANGED <<now, capture_dir_abs, files, config, options, capture_thread, output_callback,
                   pc, cmd, plan, pipe, output_lines, eventQueue, request_outcome, dest, delivered,
                   calls, window, navigation, stepwise>>

\* the configuration file is deleted
remove_config_file ==
    /\ config_file.state # "absent"
    /\ config_file' = NoFile
    /\ saved' = [saved EXCEPT !.valid = FALSE]
    /\ UNCHANGED <<now, capture_dir_abs, files, config, options, capture_thread, output_callback,
                   pc, cmd, plan, pipe, output_lines, eventQueue, request_outcome, dest, delivered,
                   calls, window, navigation, stepwise, settings>>

\* ------------------------------------------- the further specifications
\* navigation calls on a drawn directory, listable or not, with a fresh NavigationManager
InitQuery ==
    /\ now = 1
    /\ capture_dir_abs = TRUE
    /\ \/ dir_status = "ok" /\ files \in QueryDirectories
       \/ dir_status \in {"missing", "denied"} /\ files = EmptyDirectory
    /\ nm_current = NoPath /\ deleted_mtime = 0 /\ nav_query = NoQuery
    /\ prev_button = FALSE
    /\ next_button = FALSE
    /\ nav_info_label = NavLabel("empty", 0, 0)
    /\ InitWindow /\ InitStepwise /\ InitConfigured

NextQuery ==
    \/ nav_state
    \/ nav_previous
    \/ nav_next
    \/ delete_current

SpecQuery == InitQuery /\ [][NextQuery]_vars

\* one get_previous_image call on a drawn directory while files are deleted from it
InitRace ==
    /\ now = 1
    /\ capture_dir_abs = TRUE
    /\ dir_status = "ok" /\ files \in QueryDirectories
    /\ nm_current \in CurrentArgs /\ deleted_mtime = 0 /\ nav_query = NoQuery
    /\ prev_button = FALSE
    /\ next_button = FALSE
    /\ nav_info_label = NavLabel("empty", 0, 0)
    /\ InitWindow /\ InitStepwise /\ InitConfigured

NextRace ==
    \/ q_listdir
    \/ q_filter
    \/ q_key
    \/ q_sorted
    \/ q_exists
    \/ q_getmtime
    \/ q_scan
    \/ external_remove

SpecRace == InitRace /\ [][NextRace]_vars

\* a ConfigManager about to be constructed, whatever the configuration file holds
InitConfig ==
    /\ now = 1
    /\ capture_dir_abs = TRUE
    /\ files = EmptyDirectory
    /\ prev_button = FALSE
    /\ next_button = FALSE
    /\ nav_info_label = NavLabel("empty", 0, 0)
    /\ InitWindow /\ InitNavigation /\ InitStepwise
    /\ settings = EmptyMapping
    /\ config_file \in {NoFile, Garbage} \cup {JsonFile(m) : m \in SettingMappings}
    /\ saved = NoSaved

NextConfig ==
    \/ ConfigManager_init
    \/ save_config
    \/ load_config
    \/ set_setting
    \/ remove_config_file

SpecConfig == InitConfig /\ [][NextConfig]_vars

\* ------------------------------------------- the other slots of the window
\* the instrument names typed into the settings dialog
InstrumentNames == {"", "DS1104Z"}

\* SettingsDialog.save_settings: the form's fields written into the loaded config_data
DialogSettings(loaded, name) ==
    [k \in DOMAIN loaded \cup {"instrument_name", "output_filename", "output_directory"} |->
        CASE k = "instrument_name" -> PyStr(name)
          [] k = "output_filename" ->
                IF k \in DOMAIN loaded /\ loaded[k].v # "" THEN loaded[k] ELSE PyStr("grab-o-scope.png")
          [] k = "output_directory" -> IF k \in DOMAIN loaded THEN loaded[k] ELSE PyStr("")
          [] OTHER -> loaded[k]]

\* MainWindow.open_settings with the dialog accepted: the dialog saves the settings, the window
\* loads them again and puts the instrument name into the options it shares with the grabber
open_settings ==
    /\ \E name \in InstrumentNames :
        LET config_data == DialogSettings(settings, name)
            reloaded == load_settings(JsonFile(config_data))
        IN /\ settings' = reloaded.settings
           /\ config_file' = reloaded.file
           /\ saved' = [last |-> "load_config", mapping |-> config_data, valid |-> TRUE]
           /\ config' = reloaded.settings["instrument_name"].v
           /\ options' = [options EXCEPT !.name = reloaded.settings["instrument_name"].v]
    /\ UNCHANGED <<now, capture_dir_abs, files, capture_thread, output_callback, pc, cmd, plan,
                   pipe, output_lines, eventQueue, request_outcome, dest, delivered, calls>>
    /\ UNCHANGED <<window, navigation, stepwise>>

\* (mutant) with no image loaded, previous starts from the oldest image as next does
previous_of_oldest_first(d, sorted_captures, current) ==
    IF current = NoPath
    THEN IF sorted_captures # <<>> THEN sorted_captures[1] ELSE NoPath
    ELSE IF sorted_captures = <<>> THEN NoPath
    ELSE IF ~InSeq(sorted_captures, current)
    THEN LET k == LeadingOlder(d, sorted_captures, current)
         IN IF k = 0 THEN NoPath ELSE sorted_captures[k]
    ELSE LET current_index == IndexOf(sorted_captures, current) - 1
         IN IF current_index > 0 THEN sorted_captures[current_index] ELSE NoPath
\* the image show_previous_image goes to, none when it stays where it is
previous_of(d, sorted_captures, current) ==
    IF current = NoPath
    THEN IF sorted_captures # <<>> THEN sorted_captures[Len(sorted_captures)] ELSE NoPath
    ELSE IF sorted_captures = <<>> THEN NoPath
    ELSE IF ~InSeq(sorted_captures, current)
    THEN LET k == LeadingOlder(d, sorted_captures, current)
         IN IF k = 0 THEN NoPath ELSE sorted_captures[k]
    ELSE LET current_index == IndexOf(sorted_captures, current) - 1
         IN IF current_index > 0 THEN sorted_captures[current_index] ELSE NoPath

\* the image show_next_image goes to, none when it stays where it is
next_of(d, sorted_captures, current) ==
    IF current = NoPath
    THEN IF sorted_captures # <<>> THEN sorted_captures[1] ELSE NoPath
    ELSE IF sorted_captures = <<>> THEN NoPath
    ELSE IF ~InSeq(sorted_captures, current)
    THEN LET k == TrailingNewer(d, sorted_captures, current)
         IN IF k = 0 THEN NoPath ELSE sorted_captures[Len(sorted_captures) - k + 1]
    ELSE LET current_index == IndexOf(sorted_captures, current) - 1
         IN IF current_index < Len(sorted_captures) - 1 THEN sorted_captures[current_index + 2]
            ELSE NoPath

\* (mutant) going to an image leaves the Save and Clear buttons as they are
show_image_buttons_left(image, listing) ==
    IF image = NoPath
    THEN UNCHANGED <<capture_button, last_captured_image, original_pixmap, save_button,
                     clear_button, prev_button, next_button, nav_info_label>>
    ELSE /\ last_captured_image' = image
         /\ display_image(image, image, listing)
         /\ UNCHANGED <<capture_button, save_button, clear_button>>

\* self.last_captured_image = image; self.display_image(image); save and clear enabled --
\* or nothing at all when there is no image to go to
show_image(image, listing) ==
    IF image = NoPath
    THEN UNCHANGED <<capture_button, last_captured_image, original_pixmap, save_button,
                     clear_button, prev_button, next_button, nav_info_label>>
    ELSE /\ last_captured_image' = image
         /\ display_image(image, image, listing)
         /\ save_button' = TRUE
         /\ clear_button' = TRUE
         /\ UNCHANGED capture_button

\* (mutant) while a capture is running the slot returns at once, as refresh_navigation_state does
show_previous_image_idle_only ==
    /\ nav_request' = "previous"
    /\ \E listing, again \in Listings(files) :
          IF CaptureInProgress THEN show_image(NoPath, again)
          ELSE show_image(previous_of(files, get_sorted_captures(files, capture_dir_abs, listing),
                                      last_captured_image), again)
    /\ UNCHANGED <<now, capture_dir_abs, files, config, options, capture_thread, output_callback,
                   pc, cmd, plan, pipe, output_lines, eventQueue, request_outcome, dest, delivered,
                   calls>>
    /\ UNCHANGED aside

\* MainWindow.show_previous_image (the previous button, the left arrow key)
show_previous_image ==
    /\ nav_request' = "previous"
    /\ \E listing, again \in Listings(files) :
          show_image(previous_of(files, get_sorted_captures(files, capture_dir_abs, listing),
                                 last_captured_image), again)
    /\ UNCHANGED <<now, capture_dir_abs, files, config, options, capture_thread, output_callback,
                   pc, cmd, plan, pipe, output_lines, eventQueue, request_outcome, dest, delivered,
                   calls>>
    /\ UNCHANGED aside

\* MainWindow.show_next_image (the next button, the right arrow key)
show_next_image ==
    /\ nav_request' = "next"
    /\ \E listing, again \in Listings(files) :
          show_image(next_of(files, get_sorted_captures(files, capture_dir_abs, listing),
                             last_captured_image), again)
    /\ UNCHANGED <<now, capture_dir_abs, files, config, options, capture_thread, output_callback,
                   pc, cmd, plan, pipe, output_lines, eventQueue, request_outcome, dest, delivered,
                   calls>>
    /\ UNCHANGED aside

\* MainWindow.clear_image
clear_image ==
    /\ last_captured_image' = NoPath
    /\ original_pixmap' = NoPath
    /\ save_button' = FALSE
    /\ clear_button' = FALSE
    /\ \E listing \in Listings(files) :
          LET nav == update_navigation_buttons(files, get_sorted_captures(files, capture_dir_abs, listing), NoPath)
          IN /\ prev_button' = nav.prev
             /\ next_button' = nav.next
             /\ nav_info_label' = nav.label
    /\ UNCHANGED <<now, capture_dir_abs, files, config, options, capture_thread, output_callback,
                   pc, cmd, plan, pipe, output_lines, eventQueue, request_outcome, dest, delivered,
                   calls, capture_button, nav_request>>
    /\ UNCHANGED aside

\* (mutant) the timer updates the navigation buttons whether a capture is running or not
refresh_navigation_state_always ==
    /\ \E listing \in Listings(files) :
               LET nav == update_navigation_buttons(files, get_sorted_captures(files, capture_dir_abs, listing),
                                                    last_captured_image)
               IN /\ prev_button' = nav.prev
                  /\ next_button' = nav.next
                  /\ nav_info_label' = nav.label
    /\ UNCHANGED <<now, capture_dir_abs, files, config, options, capture_thread, output_callback,
                   pc, cmd, plan, pipe, output_lines, eventQueue, request_outcome, dest, delivered,
                   calls, capture_button, last_captured_image, original_pixmap, save_button,
                   clear_button, nav_request>>
    /\ UNCHANGED aside

\* MainWindow.refresh_navigation_state, on the timer
refresh_navigation_state ==
    /\ IF CaptureInProgress
       THEN UNCHANGED <<prev_button, next_button, nav_info_label>>
       ELSE \E listing \in Listings(files) :
               LET nav == update_navigation_buttons(files, get_sorted_captures(files, capture_dir_abs, listing),
                                                    last_captured_image)
               IN /\ prev_button' = nav.prev
                  /\ next_button' = nav.next
                  /\ nav_info_label' = nav.label
    /\ UNCHANGED <<now, capture_dir_abs, files, config, options, capture_thread, output_callback,
                   pc, cmd, plan, pipe, output_lines, eventQueue, request_outcome, dest, delivered,
                   calls, capture_button, last_captured_image, original_pixmap, save_button,
                   clear_button, nav_request>>
    /\ UNCHANGED aside

\* the window with all its slots, driven through its buttons, keys and timer, on a captures
\* directory that other programs delete from
NextWindow ==
    \/ click_capture_rejected
    \/ click_capture_accepted
    \/ \E t \in ThreadIds : ThreadStep(t)
    \/ DeliverEvent
    \/ Tick
    \/ open_settings
    \/ show_previous_image
    \/ show_next_image
    \/ clear_image
    \/ refresh_navigation_state
    \/ external_remove

SpecWindow == Init /\ [][NextWindow]_vars

\* the same window with its settings left alone
NextBrowse ==
    \/ click_capture_rejected
    \/ click_capture_accepted
    \/ \E t \in ThreadIds : ThreadStep(t)
    \/ DeliverEvent
    \/ Tick
    \/ show_previous_image
    \/ show_next_image
    \/ clear_image
    \/ refresh_navigation_state
    \/ external_remove

SpecBrowse == Init /\ [][NextBrowse]_vars

\* the files the file dialog of open_image_file offers: those of the captures directory, by
\* their absolute paths
OpenablePaths(d) == {JoinPath(TRUE, n) : n \in {m \in DOMAIN d : d[m].isfile}}

\* MainWindow.open_image_file with a file chosen: the image is displayed, and only then made
\* the current one
open_image_file ==
    /\ \E image_path \in OpenablePaths(files) :
        /\ \E listing \in Listings(files) : display_image(image_path, last_captured_image, listing)
        /\ last_captured_image' = image_path
        /\ save_button' = TRUE
        /\ clear_button' = TRUE
    /\ UNCHANGED <<now, capture_dir_abs, files, config, options, capture_thread, output_callback,
                   pc, cmd, plan, pipe, output_lines, eventQueue, request_outcome, dest, delivered,
                   calls, capture_button, nav_request>>
    /\ UNCHANGED aside

\* the window with its File > Open action as well
NextViewer ==
    \/ click_capture_rejected
    \/ click_capture_accepted
    \/ \E t \in ThreadIds : ThreadStep(t)
    \/ DeliverEvent
    \/ Tick
    \/ show_previous_image
    \/ show_next_image
    \/ clear_image
    \/ open_image_file
    \/ refresh_navigation_state
    \/ external_remove

SpecViewer == Init /\ [][NextViewer]_vars

\* the name of a file another program puts into the captures directory
ForeignName == [base |-> 0, ext |-> ".png"]

\* another program writes an image file into the directory
external_add ==
    /\ ForeignName \notin DOMAIN files
    /\ files' = WriteFile(files, ForeignName, now)
    /\ calls' = <<>>
    /\ UNCHANGED <<now, capture_dir_abs, config, options, capture_thread, output_callback,
                   pc, cmd, plan, pipe, output_lines, eventQueue, request_outcome, dest, delivered>>
    /\ UNCHANGED <<window, aside>>

\* another program renames a file of the directory
external_rename ==
    /\ ForeignName \notin DOMAIN files
    /\ \E name \in DOMAIN files :
          files' = [n \in (DOMAIN files \ {name}) \cup {ForeignName} |->
                        IF n = ForeignName THEN files[name] ELSE files[n]]
    /\ calls' = <<>>
    /\ UNCHANGED <<now, capture_dir_abs, config, options, capture_thread, output_callback,
                   pc, cmd, plan, pipe, output_lines, eventQueue, request_outcome, dest, delivered>>
    /\ UNCHANGED <<window, aside>>

\* the window left to its capture button and its timer, on a directory other programs write
\* to, delete from and rename in
NextRefresh ==
    \/ click_capture_accepted
    \/ \E t \in ThreadIds : ThreadStep(t)
    \/ DeliverEvent
    \/ refresh_navigation_state
    \/ external_add
    \/ external_remove
    \/ external_rename

\* The timer's slot has run with no capture in progress: the steps of
\* refresh_navigation_state, as far as the buttons and the label go.
RefreshTaken ==
    /\ ~CaptureInProgress
    /\ eventQueue' = eventQueue
    /\ \E listing \in Listings(files) :
          LET nav == update_navigation_buttons(files, get_sorted_captures(files, capture_dir_abs, listing),
                                               last_captured_image)
          IN /\ prev_button' = nav.prev
             /\ next_button' = nav.next
             /\ nav_info_label' = nav.label

\* WF: the refresh timer fires every second; a started thread is scheduled and the external
\* process terminates.
SpecRefresh ==
    /\ Init /\ [][NextRefresh]_vars
    /\ WF_<<prev_button, next_button, nav_info_label>>(RefreshTaken)
    /\ \A t \in ThreadIds : WF_vars(ThreadStep(t))

\* The directories the window is walked through: up to MaxEntries files, images but for the
\* first, which may be no image, named in the order of their modification times (equal ones
\* included). Nothing the window does reads a name but to compare paths for equality, so
\* these stand for the directories named in any other order.
WalkDirectories ==
    {DirectoryOf(f) : f \in {g \in [1..MaxEntries -> QuerySlots] :
                                \A i \in 2..MaxEntries :
                                    /\ g[i].ext # ".txt"
                                    /\ g[i].present => (g[i - 1].present /\ g[i - 1].mtime <= g[i].mtime)}}

\* MainWindow.__init__ on a drawn captures directory: update_navigation_buttons is called
\* with no image loaded
InitWalk ==
    /\ now = 1
    /\ capture_dir_abs = TRUE
    /\ files \in WalkDirectories
    /\ \E listing \in Listings(files) :
          LET nav == update_navigation_buttons(files, get_sorted_captures(files, capture_dir_abs, listing), NoPath)
          IN /\ prev_button = nav.prev
             /\ next_button = nav.next
             /\ nav_info_label = nav.label
    /\ InitWindow /\ InitNavigation /\ InitStepwise /\ InitConfigured

\* the window walked through a directory nothing else touches
NextWalk ==
    \/ show_previous_image
    \/ show_next_image
    \/ clear_image

SpecWalk == InitWalk /\ [][NextWalk]_vars

\* ------------------------------------------------------------ the claims
Terminals == {"finished", "error"}
IsTerminal(e) == e.sig \in Terminals
IsProcessLine(e) == e.arg.kind = "line"
TerminalCount(t) == Len(SelectSeq(delivered[t], IsTerminal))
\* the captures whose thread object still exists
Live(t) == pc[t] \in {"build", "read", "exit", "done"}
Unresolved(t) == Live(t) /\ TerminalCount(t) = 0
NonBlankLine(line) == ~IsBlank(line)
LineTexts(events) == [i \in DOMAIN events |-> events[i].arg.text]
IsPrefix(s, r) == Len(s) <= Len(r) /\ \A i \in DOMAIN s : s[i] = r[i]

\* C1: at most one capture is in flight: no two capture threads, hence no two external
\* processes, run at the same time, and the running thread is the one the window holds (a
\* request made meanwhile neither replaced nor joined it).
C1_AtMostOneCapture ==
    /\ \A t, u \in ThreadIds : (isRunning(t) /\ isRunning(u)) => t = u
    /\ \A t \in ThreadIds : isRunning(t) => capture_thread = t
    /\ Cardinality({t \in ThreadIds : pc[t] = "read"}) <= 1
\* a request was rejected while the external process of a capture was running
C1_Witness == request_outcome = "rejected" /\ \E t \in ThreadIds : pc[t] = "read" /\ pipe[t] # <<>>

\* C2: a request made while an accepted capture's terminal outcome is still undelivered is
\* rejected: no two accepted captures are ever unresolved together.
C2_SecondRequestRejected == \A t, u \in ThreadIds : (Unresolved(t) /\ Unresolved(u)) => t = u

\* C3: every accepted capture delivers at most one terminal outcome at any time, and
\* eventually exactly one, however its process starts and exits.
C3_ExactlyOneOutcome ==
    /\ [](\A t \in ThreadIds : TerminalCount(t) <= 1)
    /\ \A t \in ThreadIds : (pc[t] = "build") ~> (TerminalCount(t) = 1)
\* a capture whose process exited non-zero after writing lines has delivered its one outcome
C3_Witness ==
    \E t \in ThreadIds : /\ TerminalCount(t) = 1
                         /\ plan[t].popen = "started" /\ plan[t].rc # 0 /\ plan[t].lines # <<>>

\* C4: the process lines a capture has delivered are, in order, the first non-blank lines its
\* process wrote, and nothing of a capture is delivered after its terminal outcome.
C4_ProgressInOrder ==
    \A t \in ThreadIds :
        /\ \A i \in 1..(Len(delivered[t]) - 1) : ~IsTerminal(delivered[t][i])
        /\ IsPrefix(LineTexts(SelectSeq(delivered[t], IsProcessLine)),
                    SelectSeq(plan[t].lines, NonBlankLine))
\* a capture has delivered two process lines and then its terminal outcome
C4_Witness ==
    \E t \in ThreadIds : /\ Len(SelectSeq(delivered[t], IsProcessLine)) >= 2
                         /\ TerminalCount(t) = 1

\* C5: once the terminal outcome of the window's capture is delivered (and no other capture
\* is unresolved) the next capture request is accepted.
C5_IdleAfterOutcome ==
    (capture_thread # NoThread /\ \A t \in ThreadIds : Live(t) => TerminalCount(t) = 1)
        => ~CaptureInProgress

\* C6: a delivered terminal outcome is finished exactly when the process started and exited
\* with code 0, and then carries the destination path fixed when the request was accepted;
\* it is error exactly when the process did not start or exited non-zero.
C6_OutcomeMatchesExit ==
    \A t \in ThreadIds : \A i \in DOMAIN delivered[t] :
        LET e == delivered[t][i]
        IN /\ e.sig = "finished" =>
                (plan[t].popen = "started" /\ plan[t].rc = 0 /\ e.arg.path = dest[t])
           /\ e.sig = "error" =>
                (plan[t].popen = "failed" \/ (plan[t].popen = "started" /\ plan[t].rc # 0))
\* a success was delivered with its own destination path after the options had moved on
C6_Witness ==
    \E t \in ThreadIds : \E i \in DOMAIN delivered[t] :
        /\ delivered[t][i].sig = "finished"
        /\ delivered[t][i].arg.path = dest[t]
        /\ options.filename # dest[t]

\* C7: a capture whose process could not be started delivers no process line, and its
\* terminal outcome is an error carrying the startup error and no output lines.
C7_StartFailure ==
    \A t \in ThreadIds : plan[t].popen = "failed" =>
        \A i \in DOMAIN delivered[t] :
            LET e == delivered[t][i]
            IN /\ ~IsProcessLine(e)
               /\ IsTerminal(e) => (e.sig = "error" /\ e.arg.reason = "start" /\ e.arg.tail = <<>>)
\* a capture whose process could not be started has delivered its outcome
C7_Witness == \E t \in ThreadIds : plan[t].popen = "failed" /\ TerminalCount(t) = 1

\* C8: a step in which a request is rejected leaves the in-flight thread, the options with
\* the destination path, the capture button and the current image reference as they were.
C8_RejectedChangesNothing ==
    [][(request_outcome' = "rejected" /\ request_outcome # "rejected")
        => UNCHANGED <<capture_thread, output_callback, pc, cmd, plan, pipe, output_lines,
                       eventQueue, options, dest, delivered, files, window>>]_vars
\* a request was rejected while the capture button was disabled and a thread ran
C8_Witness == request_outcome = "rejected" /\ ~capture_button /\ CaptureInProgress

\* The order the specification asks of listOrdered: by modification time, then by path.
ExtOrder == <<".JPG", ".PNG", ".bmp", ".jpeg", ".jpg", ".png", ".txt">>
ExtRank(ext) == CHOOSE i \in DOMAIN ExtOrder : ExtOrder[i] = ext
PathLeq(p, q) ==
    \/ p.name.base < q.name.base
    \/ p.name.base = q.name.base /\ ExtRank(p.name.ext) <= ExtRank(q.name.ext)
KeyLeq(d, p, q) ==
    \/ getmtime(d, p) < getmtime(d, q)
    \/ getmtime(d, p) = getmtime(d, q) /\ PathLeq(p, q)

\* C9: every listing holds each qualifying image file exactly once, in non-decreasing order
\* of (modification time, path).
C9_SortedByMtimeThenPath ==
    \A c \in DOMAIN calls :
        /\ Len(calls[c]) = Cardinality({n \in DOMAIN files : IsImageFile(files, n)})
        /\ \A n \in DOMAIN files : IsImageFile(files, n) =>
              Cardinality({k \in DOMAIN calls[c] : calls[c][k] = JoinPath(capture_dir_abs, n)}) = 1
        /\ \A k \in 1..(Len(calls[c]) - 1) : KeyLeq(files, calls[c][k], calls[c][k + 1])

\* C10: two listings with no change of the directory between them are the same sequence.
C10_ListOrderedIdempotent == Len(calls) = 2 => calls[1] = calls[2]

\* the last call was an adjacent query that returned
Adjacent(op) == nav_query.op = op /\ ~nav_query.raised
\* the current image was deleted while it was the current image
CurrentDeleted == nm_current # NoPath /\ ~exists(files, nm_current) /\ deleted_mtime > 0

\* C11: with the current image B deleted and the remaining images [A, C], A older and C newer
\* than B was, get_previous_image returns A and get_next_image returns C.
C11_DeletedCurrentAdjacent ==
    \A op \in {"get_previous_image", "get_next_image"} :
        (/\ Adjacent(op)
         /\ CurrentDeleted
         /\ Len(nav_query.list) = 2
         /\ getmtime(files, nav_query.list[1]) < deleted_mtime
         /\ deleted_mtime < getmtime(files, nav_query.list[2]))
        => nav_query.image = (IF op = "get_previous_image" THEN nav_query.list[1] ELSE nav_query.list[2])

\* the current image is set and is not in the list the last call read, which is not empty
CurrentUnlisted ==
    /\ nav_query.op # "none" /\ ~nav_query.raised
    /\ nm_current # NoPath
    /\ nav_query.list # <<>>
    /\ ~InSeq(nav_query.list, nm_current)
\* the modification time of the current image: the one it has, or had when it was deleted
CurrentMtime == IF exists(files, nm_current) THEN getmtime(files, nm_current) ELSE deleted_mtime
\* image is an image of the list whose modification time is nearest on that side, or none is
NearestOn(side, image) ==
    LET onSide == {i \in DOMAIN nav_query.list :
                      IF side = "older" THEN getmtime(files, nav_query.list[i]) < CurrentMtime
                      ELSE getmtime(files, nav_query.list[i]) > CurrentMtime}
    IN IF onSide = {} THEN image = NoPath
       ELSE /\ \E i \in onSide : nav_query.list[i] = image
            /\ \A i \in onSide :
                  IF side = "older" THEN getmtime(files, nav_query.list[i]) <= getmtime(files, image)
                  ELSE getmtime(files, nav_query.list[i]) >= getmtime(files, image)

\* C12: with the current image set but not in the list, and the list not empty, both
\* directions are available, get_previous_image returns the image with the greatest
\* modification time strictly below the current image's and get_next_image the one with the
\* smallest strictly above it, each none when no image lies on that side.
C12_UnlistedCurrentNearest ==
    (CurrentUnlisted /\ (exists(files, nm_current) \/ CurrentDeleted)) =>
        /\ nav_query.op = "get_navigation_state" =>
              (nav_query.state.prev_enabled /\ nav_query.state.next_enabled)
        /\ nav_query.op = "get_previous_image" => NearestOn("older", nav_query.image)
        /\ nav_query.op = "get_next_image" => NearestOn("newer", nav_query.image)

\* the current image is in the list the last call read
CurrentListed ==
    /\ nav_query.op # "none" /\ ~nav_query.raised
    /\ nm_current # NoPath
    /\ InSeq(nav_query.list, nm_current)

\* C13: with the current image at index i (from 0) of the n images of the list, previous is
\* available iff i > 0 and next iff i < n-1, get_previous_image returns list[i-1] and
\* get_next_image list[i+1], each none at its boundary.
C13_ListedCurrentNeighbours ==
    CurrentListed =>
        LET i == IndexOf(nav_query.list, nm_current) - 1
            n == Len(nav_query.list)
        IN /\ nav_query.op = "get_navigation_state" =>
                 /\ nav_query.state.prev_enabled = (i > 0)
                 /\ nav_query.state.next_enabled = (i < n - 1)
           /\ nav_query.op = "get_previous_image" =>
                 nav_query.image = (IF i > 0 THEN nav_query.list[(i - 1) + 1] ELSE NoPath)
           /\ nav_query.op = "get_next_image" =>
                 nav_query.image = (IF i < n - 1 THEN nav_query.list[(i + 1) + 1] ELSE NoPath)
\* get_next_image returned the third of three images, the current image being the second
C13_Witness ==
    /\ CurrentListed
    /\ nav_query.op = "get_next_image"
    /\ Len(nav_query.list) = 3
    /\ nav_query.list[2] = nm_current
    /\ nav_query.image = nav_query.list[3]

NoCaptures == {n \in DOMAIN files : IsImageFile(files, n)} = {}

\* C15: on a directory without captures get_navigation_state reports previous and next not
\* available, total_count 0 and an empty label, and get_previous_image and get_next_image
\* return none, whatever the current image is (none, an existing file, a deleted one).
C15_EmptyDirectory ==
    (nav_query.op # "none" /\ ~nav_query.raised /\ NoCaptures) =>
        /\ nav_query.op = "get_navigation_state" =>
              /\ ~nav_query.state.prev_enabled
              /\ ~nav_query.state.next_enabled
              /\ nav_query.state.total_count = 0
              /\ nav_query.state.info_text = <<>>
        /\ nav_query.op \in {"get_previous_image", "get_next_image"} => nav_query.image = NoPath
\* get_navigation_state answered on a directory without captures for a current image that
\* was deleted
C15_Witness ==
    /\ nav_query.op = "get_navigation_state" /\ ~nav_query.raised
    /\ NoCaptures
    /\ CurrentDeleted
    /\ nav_query.state.total_count = 0

\* C16: no navigation query raises because a file it refers to was deleted, under any
\* interleaving of the query's file-system reads with an external deletion, the one
\* between listing the directory and reading a modification time included.
C16_NoStaleRaise == q_pc # "raised"

\* C17: when the captures directory cannot be listed (it does not exist, permission is
\* denied, an I/O error occurs) the listing is empty, total_count is 0 and no exception
\* leaves the query.
C17_UnlistableIsEmpty ==
    (nav_query.op # "none" /\ dir_status # "ok") =>
        /\ ~nav_query.raised
        /\ nav_query.list = <<>>
        /\ nav_query.op = "get_navigation_state" => nav_query.state.total_count = 0

\* C18: the label of get_navigation_state is exactly "Image {i+1} of {n}" when the current
\* image is found at index i of n, exactly "Total images: {n}" when no current image is set
\* or it is not found, and empty when n = 0.
C18_ExactLabel ==
    (nav_query.op = "get_navigation_state" /\ ~nav_query.raised) =>
        LET n == Len(nav_query.list)
            label == nav_query.state.info_text
        IN CASE n = 0 -> label = <<>>
             [] n > 0 /\ CurrentListed ->
                    label = <<"Image ", ToString(IndexOf(nav_query.list, nm_current)),
                              " of ", ToString(n)>>
             [] OTHER -> label = <<"Total images: ", ToString(n)>>

C20_DefaultSettings ==
    saved.last = "init_default" =>
        /\ "oscilloscope_address" \in DOMAIN settings
        /\ "image_format" \in DOMAIN settings
        /\ settings["oscilloscope_address"] = PyStr("TCPIP0::127.0.0.1::INSTR")
        /\ settings["image_format"] = PyStr("png")

\* a step in which capture_screen accepted a request: a CaptureThread was started
Accepted(t) == pc[t] # "build" /\ pc'[t] = "build"

\* C21: accepting a request and becoming Running is one step, taken before the external
\* process is spawned: as long as an accepted capture has not spawned its process its thread
\* is the window's thread and the guard of capture_screen holds, so a request made back to
\* back is rejected and no second thread is started.
C21_AcceptIsAtomic ==
    \A t \in ThreadIds :
        pc[t] = "build" =>
            /\ capture_thread = t
            /\ CaptureInProgress
            /\ plan[t].popen = "none"
            /\ \A u \in ThreadIds \ {t} : pc[u] # "build"
\* a request made right after an accepted one, before the process is spawned, was rejected
C21_Witness ==
    \E t \in ThreadIds :
        /\ pc[t] = "build"
        /\ capture_thread = t
        /\ plan[t].popen = "none"
        /\ request_outcome = "rejected"

IsOutput(e) == e.sig = "output"

\* C22: the progress events delivered for a capture whose process ran are exactly the lines
\* the process wrote, in order: once the terminal outcome is delivered, every output event is
\* a process line and their texts are the process's lines, blank lines included.
C22_ProgressEqualsProcessLines ==
    \A t \in ThreadIds :
        (plan[t].popen = "started" /\ TerminalCount(t) = 1) =>
            /\ \A i \in DOMAIN delivered[t] : IsOutput(delivered[t][i]) => IsProcessLine(delivered[t][i])
            /\ LineTexts(SelectSeq(delivered[t], IsOutput)) = plan[t].lines

IsSuffix(s, r) == Len(s) <= Len(r) /\ \A i \in DOMAIN s : s[i] = r[Len(r) - Len(s) + i]

\* C23: the error delivered for a process that exited non-zero carries the last min(5, k) of
\* the k lines the process wrote, in order and never more than 5, and these lines end the
\* progress stream delivered for the capture, which is not cut to 5.
C23_FailureTail ==
    \A t \in ThreadIds : \A i \in DOMAIN delivered[t] :
        (delivered[t][i].sig = "error" /\ plan[t].popen = "started") =>
            /\ delivered[t][i].arg.tail = LastLines(plan[t].lines)
            /\ Len(delivered[t][i].arg.tail) <= TailLen
            /\ IsSuffix(delivered[t][i].arg.tail, LineTexts(SelectSeq(delivered[t], IsProcessLine)))

\* subprocess.Popen has been called for the capture
Spawned(t) == plan[t].popen # "none"

\* C24: every accepted capture calls subprocess.Popen exactly once and a rejected request
\* never does: a thread is started only by an accepted request, its run spawns once, before
\* anything else, and never again whatever the outcome (no retry), so the captures that have
\* spawned are exactly the accepted ones whose run has passed its Popen.
C24_OneSpawnPerAccepted ==
    /\ [][\A t \in ThreadIds :
            /\ Accepted(t) => (request_outcome' = "accepted" /\ ~Spawned(t)')
            /\ (pc[t] = "build" /\ pc'[t] # "build") => Spawned(t)'
            /\ (Spawned(t) /\ plan'[t] # plan[t]) => (pc'[t] = "gone" /\ plan'[t] = NoPlan)
            /\ (request_outcome' = "rejected" /\ request_outcome # "rejected") => plan' = plan /\ pc' = pc
         ]_vars
    /\ [](\A t \in ThreadIds : Spawned(t) <=> pc[t] \in {"read", "exit", "done"})
\* a capture failed with a non-zero exit, its error was delivered and its thread has ended,
\* and no other capture was started
C24_Witness ==
    \E t \in ThreadIds :
        /\ pc[t] = "done" /\ TerminalCount(t) = 1
        /\ plan[t].popen = "started" /\ plan[t].rc # 0
        /\ eventQueue = <<>>
        /\ \A u \in ThreadIds \ {t} : pc[u] = "none"

\* C25: the request of a capture in flight does not change: the command its thread builds
\* carries the instrument name the options held when the request was accepted and the
\* destination path fixed then, whatever the window does in between (open_settings, other
\* slots).
C25_RequestImmutable ==
    [][\A t \in ThreadIds :
          /\ Accepted(t) => UNCHANGED options.name
          /\ (pc[t] = "build" /\ pc'[t] = "build") => UNCHANGED options
          /\ (pc[t] = "build" /\ pc'[t] # "build") =>
                (cmd'[t].name = options.name /\ cmd'[t].filename = dest[t])
          /\ (pc[t] = "read" /\ pc'[t] = "read") => UNCHANGED <<options.filename, cmd>>]_vars

\* C26: what a navigation call returns depends only on the directory at the time of the call
\* and on the current image passed to it: get_navigation_state(current) returns what a new
\* NavigationManager returns for the same argument and the same listing, in particular for
\* current = None after an earlier call with an image.
C26_NoCrossCallState ==
    (nav_query.op = "get_navigation_state" /\ ~nav_query.raised) =>
        nav_query.state = get_navigation_state(files, nav_query.list, nav_query.arg)

\* the names that end, whatever the case of their letters, in .png, .jpg, .jpeg or .bmp
ImageNamed(name) == name.ext \in {".png", ".PNG", ".jpg", ".JPG", ".jpeg", ".bmp"}
Elements(s) == {s[i] : i \in DOMAIN s}

\* C27: a listing holds a path exactly when it is the path of a regular file of the captures
\* directory whose name ends, case-insensitively, in .png, .jpg, .jpeg or .bmp: a
\* subdirectory with such a name and a file with another extension are not listed, a file
\* with an upper-case extension is.
C27_ListedIffImageFile ==
    \A c \in DOMAIN calls :
        Elements(calls[c]) =
            {JoinPath(capture_dir_abs, n) : n \in {m \in DOMAIN files : files[m].isfile /\ ImageNamed(m)}}
\* a listing of a directory with a subdirectory named like an image, a file that is no image
\* and an image file with an upper-case extension
C27_Witness ==
    /\ Len(calls) >= 1
    /\ \E n \in DOMAIN files : ~files[n].isfile /\ n.ext = ".png"
    /\ \E n \in DOMAIN files : files[n].isfile /\ n.ext = ".txt"
    /\ \E n \in DOMAIN files : files[n].isfile /\ n.ext = ".JPG" /\ InSeq(calls[1], JoinPath(capture_dir_abs, n))

\* C28: every state get_navigation_state returns is consistent with the one listing the call
\* read: total_count is the length of that listing; total_count = 0 comes with both flags
\* false and an empty label; and a reported current_index i satisfies 0 <= i < total_count
\* with the listing's element i (counted from 0) being the current image.
C28_StateConsistent ==
    (nav_query.op = "get_navigation_state" /\ ~nav_query.raised) =>
        LET st == nav_query.state
        IN /\ st.total_count = Len(nav_query.list)
           /\ st.total_count = 0 =>
                 (~st.prev_enabled /\ ~st.next_enabled /\ st.info_text = <<>>)
           /\ st.current_index # NoIndex =>
                 /\ 0 <= st.current_index /\ st.current_index < st.total_count
                 /\ nav_query.list[st.current_index + 1] = nm_current
\* a state that reports the position of the current image, the last of two or more images
C28_Witness ==
    /\ nav_query.op = "get_navigation_state" /\ ~nav_query.raised
    /\ nav_query.state.total_count >= 2
    /\ nav_query.state.current_index = nav_query.state.total_count - 1
    /\ nav_query.list[nav_query.state.total_count] = nm_current

\* the event a step delivers for capture t, when it delivers one
Delivers(t) == Len(delivered'[t]) = Len(delivered[t]) + 1
NewEvent(t) == delivered'[t][Len(delivered'[t])]
LastEvent(t) == delivered[t][Len(delivered[t])]

\* C29: the delivery of a capture's success makes last_captured_image the destination path
\* of that capture; the delivery of a capture's failure and a rejected request leave
\* last_captured_image as it was.
C29_CurrentImageOnOutcome ==
    [][/\ \A t \in ThreadIds : Delivers(t) =>
            /\ NewEvent(t).sig = "finished" => last_captured_image' = AbsPath(dest[t])
            /\ NewEvent(t).sig = "error" => UNCHANGED last_captured_image
       /\ (request_outcome' = "rejected" /\ request_outcome # "rejected") =>
            UNCHANGED last_captured_image]_vars
\* a capture's failure was delivered while the image reference was the file an earlier
\* capture had written, and the reference is still that file
C29_Witness ==
    \E t \in ThreadIds :
        /\ TerminalCount(t) = 1 /\ LastEvent(t).sig = "error"
        /\ dest[t] # NoPath
        /\ last_captured_image # NoPath
        /\ last_captured_image # AbsPath(dest[t])
        /\ exists(files, last_captured_image)

\* what the window's capture consists of
capture_state == <<capture_thread, output_callback, pc, cmd, plan, pipe, output_lines, eventQueue,
                   options, dest, delivered, capture_button, request_outcome, files>>

\* the step went to the image NavigationManager's query op gives for the directory and the
\* current image, or stayed when it gives none
ServedAs(op) ==
    \E listing \in Listings(files) :
        LET sorted_captures == get_sorted_captures(files, capture_dir_abs, listing)
            image == IF op = "previous"
                     THEN get_previous_image(files, sorted_captures, last_captured_image)
                     ELSE get_next_image(files, sorted_captures, last_captured_image)
        IN IF image = NoPath THEN UNCHANGED last_captured_image
           ELSE last_captured_image' = image

\* C30: show_previous_image and show_next_image are served the same way whether a capture
\* is running or not: every such request, and every step of these slots, goes where the
\* directory and the current image alone determine and leaves the capture as it is; no step
\* of the window ends a running thread (only the return of its run() does), and the outcome
\* a capture delivers is the one its process's exit decides.
C30_NavigationIndependent ==
    /\ [][/\ (show_previous_image \/ (nav_request' # nav_request /\ nav_request' = "previous")) =>
                (ServedAs("previous") /\ UNCHANGED capture_state)
          /\ (show_next_image \/ (nav_request' # nav_request /\ nav_request' = "next")) =>
                (ServedAs("next") /\ UNCHANGED capture_state)
          /\ \A t \in ThreadIds :
                (isRunning(t) /\ ~isRunning(t)') => (pc[t] = "exit" /\ pc'[t] = "done")]_vars
    /\ [](\A t \in ThreadIds : \A i \in DOMAIN delivered[t] :
            /\ delivered[t][i].sig = "finished" => (plan[t].popen = "started" /\ plan[t].rc = 0)
            /\ delivered[t][i].sig = "error" => (plan[t].popen = "failed" \/ plan[t].rc # 0))
\* while a capture was running, its outcome not yet delivered, navigation went to the file
\* the capture's process had just written, with an older capture in the directory
C30_Witness ==
    \E t \in ThreadIds :
        /\ isRunning(t) /\ TerminalCount(t) = 0
        /\ dest[t] # NoPath
        /\ last_captured_image = AbsPath(dest[t])
        /\ original_pixmap = last_captured_image
        /\ \E n \in DOMAIN files : n # dest[t].name

\* the captures that have come to the end of a process that exited 0
Succeeded(t) == plan[t].popen = "started" /\ ~ExitFailed(plan[t].rc) /\ pc[t] \in {"exit", "done"}
\* the step in which the process of capture t is found to have exited 0
Succeeds(t) == pc[t] = "read" /\ pc'[t] = "exit" /\ ~ExitFailed(plan[t].rc)

\* C31: the destination path of a capture is a function of the captures directory and of the
\* wall-clock second in which the request is accepted and nothing else, so captures of one
\* second share it; a capture that succeeds puts its artifact at that path, over whatever is
\* there, and the number of artifacts grows by at most one -- by none when the path is taken.
C31_SameSecondSamePath ==
    [][/\ \A t \in ThreadIds :
            Accepted(t) => dest'[t] = JoinPath(capture_dir_abs, CaptureName(now))
       /\ \A t \in ThreadIds :
            Succeeds(t) =>
                /\ DOMAIN files' = DOMAIN files \cup {dest[t].name}
                /\ files'[dest[t].name].isfile
                /\ \A n \in DOMAIN files : n # dest[t].name => files'[n] = files[n]
       /\ Cardinality(DOMAIN files') <= Cardinality(DOMAIN files) + 1]_vars
\* the second capture of one second has exited 0 while the success of the first, which is what
\* the window shows, is all there is in the directory: one artifact for two captures
C31_Witness ==
    /\ now = 1
    /\ pc[1] = "gone"
    /\ Succeeded(2)
    /\ delivered[2] = <<>>
    /\ last_captured_image = AbsPath(dest[2])
    /\ DOMAIN files = {dest[2].name}

\* what the window displays of its navigation state
Displayed == NavButtons(prev_button, next_button, nav_info_label)
\* the navigation state of an image in the directory as it stands, for one of the orders os.listdir
\* may give
NavigationOf(d, current) ==
    {update_navigation_buttons(d, get_sorted_captures(d, capture_dir_abs, listing), current) :
        listing \in Listings(d)}

\* C32: every step of the window that changes the current image (a capture finished, previous,
\* next, open image file, clear) leaves the buttons and the label at the navigation state of
\* the new current image in the directory of that moment.
C32_NavigationFollowsCurrent ==
    [][last_captured_image' # last_captured_image =>
            Displayed' \in NavigationOf(files', last_captured_image')]_vars

\* the last call returned, and the current image is unset or in the ordered list it read
CurrentUnsetOrListed ==
    /\ nav_query.op # "none" /\ ~nav_query.raised
    /\ nm_current = NoPath \/ InSeq(nav_query.list, nm_current)

OrderedLists(d) == {get_sorted_captures(d, capture_dir_abs, listing) : listing \in Listings(d)}
\* the cursor after a move: the image gone to, or the cursor itself when there is none
MovedTo(cursor, image) == IF image = NoPath THEN cursor ELSE image
\* the cursor after k moves in one direction on the ordered list L
RECURSIVE CursorAfter(_, _, _, _, _)
CursorAfter(op, d, L, cursor, k) ==
    IF k = 0 THEN cursor
    ELSE LET c == CursorAfter(op, d, L, cursor, k - 1)
         IN MovedTo(c, IF op = "previous" THEN previous_of(d, L, c) ELSE next_of(d, L, c))

C35_ButtonDisabledWhilePending ==
    /\ [](capture_button = (\A t \in ThreadIds : ~Unresolved(t)))
    /\ [][/\ (\E t \in ThreadIds : Accepted(t)) =>
                (capture_button /\ ~capture_button' /\ \A t \in ThreadIds : ~Unresolved(t))
          /\ (request_outcome' # request_outcome) => capture_button]_vars
\* the thread of a capture has returned and its error is still queued: the button is disabled
\* although no thread is running
C35_Witness ==
    /\ ~capture_button
    /\ ~CaptureInProgress
    /\ \E t \in ThreadIds :
          /\ Unresolved(t)
          /\ pc[t] = "done"
          /\ \E i \in DOMAIN eventQueue : eventQueue[i].th = t /\ eventQueue[i].sig = "error"

\* C36: in every state of the window, whatever captures succeeded or failed and whatever of
\* previous, next, open and clear was done, the Save button and the Clear button are enabled
\* exactly when an image reference is set.
C36_SaveClearIffImage ==
    /\ save_button = (last_captured_image # NoPath)
    /\ clear_button = (last_captured_image # NoPath)
\* a capture finished whose file another program had deleted: the reference is set to it and
\* both buttons are enabled, though no image is shown
C36_Witness ==
    /\ last_captured_image # NoPath
    /\ ~exists(files, last_captured_image)
    /\ original_pixmap = NoPath
    /\ save_button /\ clear_button
    /\ \E t \in ThreadIds :
          /\ TerminalCount(t) = 1
          /\ last_captured_image = AbsPath(dest[t])

\* the display is not the navigation state of the current image in the directory as it stands
Stale == Displayed \notin NavigationOf(files, last_captured_image)

\* C37: while a capture thread is running the timer's refresh leaves the buttons and the
\* label as they are (they change only when a capture's finished signal is delivered); and a
\* display that a change of the directory by another program -- a file added, deleted or
\* renamed -- has left behind is eventually brought up to the directory by a refresh.
C37_RefreshReflectsChanges ==
    /\ [][(CaptureInProgress /\ Displayed' # Displayed) => EventTaken]_vars
    /\ Stale ~> ~Stale
\* with no capture running, the refresh shows the one image another program has put into the
\* directory
C37_Witness ==
    /\ ~CaptureInProgress
    /\ DOMAIN files = {ForeignName}
    /\ last_captured_image = NoPath
    /\ ~Stale
    /\ nav_info_label = NavLabel("total", 0, 1)

====
